---- MODULE Spec2Model ----
(***************************************************************************)
(* A model of benitogf/jsonpatch: the diff engine of jsonpatch.go          *)
(* (CreatePatch, diffObjects, diff, handleValues, compareArray and their   *)
(* helpers) and the patch executor that replays an operation list.         *)
(*                                                                         *)
(* Strings are sequences of one-character strings, so that the pointer     *)
(* encoder, strconv.Itoa and the serializer are computed character by      *)
(* character.  A JSON value is a record tagged by its kind:                *)
(*   [k |-> "null"]                the nil interface                       *)
(*   [k |-> "bool", b |-> BOOLEAN]                                         *)
(*   [k |-> "num",  s |-> chars]   json.Number (the number's text)         *)
(*   [k |-> "str",  s |-> chars]                                           *)
(*   [k |-> "arr",  e |-> sequence of values]      []interface{}           *)
(*   [k |-> "obj",  m |-> function keys -> values] map[string]interface{}  *)
(*   [k |-> "raw",  r |-> raw element]             json.RawMessage         *)
(***************************************************************************)
EXTENDS Integers, Sequences, FiniteSets, TLC

VARIABLES a, b, pc, res, doc, applied, aerr, failedPath, accumulatedCopySize,
          AccumulatedCopySizeLimit, wire, matches, calls, earlier

vars == <<a, b, pc, res, doc, applied, aerr, failedPath, accumulatedCopySize,
          AccumulatedCopySizeLimit, wire, matches, calls, earlier>>

-----------------------------------------------------------------------------
(* Value constructors *)

Nil == [k |-> "null"]

Bool(x) == [k |-> "bool", b |-> x]

Num(t) == [k |-> "num", s |-> t]

Str(t) == [k |-> "str", s |-> t]

Arr(es) == [k |-> "arr", e |-> es]

Obj(f) == [k |-> "obj", m |-> f]

EmptyObj == Obj([q \in {} |-> Nil])

Obj1(k1, v1) == Obj([q \in {k1} |-> v1])

Obj2(k1, v1, k2, v2) == Obj([q \in {k1, k2} |-> IF q = k1 THEN v1 ELSE v2])

-----------------------------------------------------------------------------
(* Characters and their byte order (Go compares strings bytewise). *)

Alphabet == <<" ", "\"", ",", "-", "/", "0", "1", "2", "3", "4", "5", "6", "7",
              "8", "9", ":", "[", "]", "a", "b", "c", "d", "e", "f", "g", "h", "i",
              "j", "k", "l", "m", "n", "o", "p", "q", "r", "s", "t", "u", "v", "w",
              "x", "y", "z", "{", "}", "~">>

Code(c) == CHOOSE i \in 1..Len(Alphabet) : Alphabet[i] = c

RECURSIVE StrLess(_, _)
StrLess(s, t) ==
  IF t = <<>> THEN FALSE
  ELSE IF s = <<>> THEN TRUE
  ELSE IF Head(s) = Head(t) THEN StrLess(Tail(s), Tail(t))
  ELSE Code(Head(s)) < Code(Head(t))

RECURSIVE Flatten(_)
Flatten(ss) == IF ss = <<>> THEN <<>> ELSE Head(ss) \o Flatten(Tail(ss))

(* The elements of a finite set of strings, in ascending byte order. *)
RECURSIVE SortedKeys(_)
LeastFirst(S, least) == <<least>> \o SortedKeys(S \ {least})

SortedKeys(S) ==
  IF S = {} THEN <<>>
  ELSE LeastFirst(S, CHOOSE k1 \in S : \A k2 \in S \ {k1} : StrLess(k1, k2))

Digits == <<"0", "1", "2", "3", "4", "5", "6", "7", "8", "9">>

(* strconv.Itoa for a non-negative int *)
RECURSIVE Itoa(_)
Itoa(n) ==
  IF n < 10 THEN <<Digits[n + 1]>>
  ELSE Itoa(n \div 10) \o <<Digits[(n % 10) + 1]>>

-----------------------------------------------------------------------------
(* json.Marshal of a value: the canonical text, object keys in ascending   *)
(* order.  The strings of the model hold no character that JSON escapes.   *)

RECURSIVE Marshal(_), MarshalElems(_), MarshalMembers(_, _)

(* The text of a json.RawMessage: the canonical text of its value, or,    *)
(* for fmt = 1, the same text with a space after the opening bracket.      *)
Spell(t, fmt) == IF fmt = 0 THEN t ELSE <<Head(t), " ">> \o Tail(t)

Text(r) == Spell(Marshal(r.v), r.fmt)

MarshalElems(es) ==
  IF es = <<>> THEN <<>>
  ELSE IF Len(es) = 1 THEN Marshal(es[1])
  ELSE Marshal(es[1]) \o <<",">> \o MarshalElems(Tail(es))

MarshalMembers(m, ks) ==
  IF ks = <<>> THEN <<>>
  ELSE <<"\"">> \o Head(ks) \o <<"\"", ":">> \o Marshal(m[Head(ks)])
       \o (IF Len(ks) = 1 THEN <<>> ELSE <<",">> \o MarshalMembers(m, Tail(ks)))

Marshal(v) ==
  CASE v.k = "null" -> <<"n", "u", "l", "l">>
    [] v.k = "bool" -> IF v.b THEN <<"t", "r", "u", "e">>
                       ELSE <<"f", "a", "l", "s", "e">>
    [] v.k = "num"  -> v.s
    [] v.k = "str"  -> <<"\"">> \o v.s \o <<"\"">>
    [] v.k = "arr"  -> <<"[">> \o MarshalElems(v.e) \o <<"]">>
    [] v.k = "obj"  -> <<"{">> \o MarshalMembers(v.m, SortedKeys(DOMAIN v.m))
                       \o <<"}">>
    [] v.k = "raw"  -> Text(v.r)

(* hashValue: the JSON representation as the hash key *)
hashValue(v) == Marshal(v)

(* A raw element of a top-level array: its decoded value and its spelling. *)
Raw(v, fmt) == [v |-> v, fmt |-> fmt]

RawValue(r) == [k |-> "raw", r |-> r]

(* What a decoder makes of an operation's value once the patch is encoded *)
(* and decoded again: a RawMessage becomes the value it spells.           *)
Decoded(v) == IF v.k = "raw" THEN v.r.v ELSE v

-----------------------------------------------------------------------------
(* Operations and results *)

NewPatch(operation, path, value) ==
  [op |-> operation, path |-> path, value |-> value]

(* A returned (patch, error) pair.  err = "panic" stands for a call that  *)
(* does not return.                                                        *)
(* an Operation that carries a from pointer as well *)
Op(operation, path, value, from) ==
  [op |-> operation, path |-> path, value |-> value, from |-> from]

OpenOp == <<"{", "\"", "o", "p", "\"", ":", "\"">>

PathField == <<"\"", ",", "\"", "p", "a", "t", "h", "\"", ":", "\"">>

ValueField == <<",", "\"", "v", "a", "l", "u", "e", "\"", ":">>

OpName(operation) ==
  CASE operation = "add" -> <<"a", "d", "d">>
    [] operation = "remove" -> <<"r", "e", "m", "o", "v", "e">>
    [] operation = "replace" -> <<"r", "e", "p", "l", "a", "c", "e">>
    [] operation = "move" -> <<"m", "o", "v", "e">>
    [] operation = "copy" -> <<"c", "o", "p", "y">>
    [] operation = "test" -> <<"t", "e", "s", "t">>

(* a MarshalJSON that leaves out every nil value *)
MarshalJSONOmitNil(j) ==
  OpenOp \o OpName(j.op) \o PathField \o j.path \o <<"\"">>
  \o (IF j.value # Nil THEN ValueField \o Marshal(j.value) ELSE <<>>)
  \o <<"}">>

MarshalJSON(j) ==
  OpenOp \o OpName(j.op) \o PathField \o j.path \o <<"\"">>
  \o (IF j.value # Nil \/ j.op = "replace" \/ j.op = "add"
      THEN ValueField \o Marshal(j.value) ELSE <<>>)
  \o <<"}">>

Ok(patch) == [patch |-> patch, isNil |-> FALSE, err |-> "nil"]

Fail(e) == [patch |-> <<>>, isNil |-> TRUE, err |-> e]

errBadMergeTypes == "mismatched json documents"

-----------------------------------------------------------------------------
(* Type tests and equality *)

Lookup(m, key) == IF key \in DOMAIN m THEN m[key] ELSE Nil

RECURSIVE matchesValue(_, _)
matchesValue(av, bv) ==
  CASE av.k = "str"  -> bv.k = "str" /\ bv.s = av.s
    [] av.k = "num"  -> bv.k = "num" /\ bv.s = av.s
    [] av.k = "bool" -> bv.k = "bool" /\ bv.b = av.b
    [] av.k = "obj"  ->
         IF bv.k # "obj" \/ Cardinality(DOMAIN av.m) # Cardinality(DOMAIN bv.m)
         THEN FALSE
         ELSE \A key \in DOMAIN av.m : matchesValue(av.m[key], Lookup(bv.m, key))
    [] av.k = "arr"  ->
         IF bv.k # "arr" \/ Len(bv.e) # Len(av.e) THEN FALSE
         ELSE \A i \in 1..Len(av.e) : matchesValue(av.e[i], bv.e[i])
    [] av.k = "null" -> bv.k = "null"
    [] OTHER -> FALSE

sameType(x, y) ==
  CASE x.k \in {"str", "num", "bool", "obj", "arr", "null"} -> y.k = x.k
    [] OTHER -> FALSE

(* jsonType: the first non-whitespace character of the raw text *)
RECURSIVE jsonType(_)
jsonType(data) ==
  IF data = <<>> THEN "NUL"
  ELSE IF Head(data) = " " THEN jsonType(Tail(data))
  ELSE Head(data)

sameRawType(x, y) ==
  IF Len(Text(x)) = 0 \/ Len(Text(y)) = 0 THEN Len(Text(x)) = Len(Text(y))
  ELSE jsonType(Text(x)) = jsonType(Text(y))

-----------------------------------------------------------------------------
(* Pointer encoding *)

IntPart(i) == [t |-> "int", i |-> i]

StrPart(s) == [t |-> "string", s |-> s]

(* strings.NewReplacer("~", "~0", "/", "~1").Replace *)
RECURSIVE rfc6901Encoder(_)
rfc6901Encoder(s) ==
  IF s = <<>> THEN <<>>
  ELSE (CASE Head(s) = "~" -> <<"~", "0">>
          [] Head(s) = "/" -> <<"~", "1">>
          [] OTHER -> <<Head(s)>>) \o rfc6901Encoder(Tail(s))

makePath(path, newPart) ==
  LET key == IF newPart.t = "int" THEN Itoa(newPart.i)
             ELSE rfc6901Encoder(newPart.s)
  IN  IF path = <<>> THEN <<"/">> \o key
      ELSE IF path[Len(path)] = "/" THEN path \o key
      ELSE path \o <<"/">> \o key

-----------------------------------------------------------------------------
(* Sorting: the two insertion sorts *)

RECURSIVE InsertDesc(_, _), sortDescending(_), InsertAsc(_, _), sortAscending(_)

(* s is sorted; x is bubbled from the end toward the front while larger *)
InsertDesc(s, x) ==
  IF s = <<>> THEN <<x>>
  ELSE IF x > s[Len(s)] THEN Append(InsertDesc(SubSeq(s, 1, Len(s) - 1), x), s[Len(s)])
  ELSE Append(s, x)

(* a sortDescending that leaves the indices in the order collected *)
sortNothing(s) == s

sortDescending(s) ==
  IF s = <<>> THEN <<>>
  ELSE InsertDesc(sortDescending(SubSeq(s, 1, Len(s) - 1)), s[Len(s)])

InsertAsc(s, x) ==
  IF s = <<>> THEN <<x>>
  ELSE IF x < s[Len(s)] THEN Append(InsertAsc(SubSeq(s, 1, Len(s) - 1), x), s[Len(s)])
  ELSE Append(s, x)

sortAscending(s) ==
  IF s = <<>> THEN <<>>
  ELSE InsertAsc(sortAscending(SubSeq(s, 1, Len(s) - 1)), s[Len(s)])

-----------------------------------------------------------------------------
(* compareArray.  Go visits the buckets of a map in an unspecified order:  *)
(* ord.rev chooses between the order of first occurrence and its reverse.  *)

RECURSIVE Reverse(_)
Reverse(s) == IF s = <<>> THEN <<>> ELSE Append(Reverse(Tail(s)), Head(s))

(* the hashes of the elements of xs, each once, by first occurrence *)
AddHash(rest, h) ==
  IF \E i \in 1..Len(rest) : rest[i] = h THEN rest ELSE Append(rest, h)

RECURSIVE Hashes(_)
Hashes(xs) ==
  IF xs = <<>> THEN <<>>
  ELSE AddHash(Hashes(SubSeq(xs, 1, Len(xs) - 1)), hashValue(xs[Len(xs)]))

(* arrayDiff.indices of the bucket of hash h: 0-based, ascending *)
RECURSIVE Indices(_, _)
Indices(xs, h) ==
  IF xs = <<>> THEN <<>>
  ELSE Indices(SubSeq(xs, 1, Len(xs) - 1), h)
       \o (IF hashValue(xs[Len(xs)]) = h THEN <<Len(xs) - 1>> ELSE <<>>)

BucketOrder(xs, o) == IF o.rev THEN Reverse(Hashes(xs)) ELSE Hashes(xs)

(* the bucket xi of one hash against the bucket yi of the other side,     *)
(* matched by presence alone: the occurrences are not counted              *)
ExcessUncounted(xi, yi) == IF Len(yi) = 0 THEN xi ELSE <<>>

(* indices of xs that ys does not account for: every occurrence of a hash  *)
(* ys lacks, and the last excess occurrences of a hash xs holds more of    *)
(* the bucket xi of one hash against the bucket yi of the other side,    *)
(* taking the first excess occurrences instead of the last                *)
ExcessHead(xi, yi) ==
  IF Len(yi) = 0 THEN xi
  ELSE IF Len(xi) > Len(yi) THEN SubSeq(xi, 1, Len(xi) - Len(yi))
  ELSE <<>>

(* the bucket xi of one hash against the bucket yi of the other side *)
ExcessOf(xi, yi) ==
  IF Len(yi) = 0 THEN xi
  ELSE IF Len(xi) > Len(yi)
       THEN SubSeq(xi, Len(xi) - (Len(xi) - Len(yi)) + 1, Len(xi))
  ELSE <<>>

RECURSIVE Excess(_, _, _)
Excess(hs, xs, ys) ==
  IF hs = <<>> THEN <<>>
  ELSE ExcessOf(Indices(xs, Head(hs)), Indices(ys, Head(hs)))
       \o Excess(Tail(hs), xs, ys)

RemoveOps(p, removes) ==
  [i \in 1..Len(removes) |-> NewPatch("remove", makePath(p, IntPart(removes[i])), Nil)]

AddOps(p, adds, bv) ==
  [i \in 1..Len(adds) |->
     NewPatch("add", makePath(p, IntPart(adds[i])), bv[adds[i] + 1])]

compareArray(av, bv, p, o) ==
  RemoveOps(p, sortDescending(Excess(BucketOrder(av, o), av, bv)))
    \o AddOps(p, sortAscending(Excess(BucketOrder(bv, o), bv, av)), bv)

-----------------------------------------------------------------------------
(* handleValues and diff.  ord.keys is the order in which this run visits  *)
(* the keys of a map.                                                      *)

KeysOf(m, o) ==
  SelectSeq(o.keys, LAMBDA key : key \in DOMAIN m)
    \o SortedKeys(DOMAIN m \ {o.keys[i] : i \in 1..Len(o.keys)})

RECURSIVE handleValues(_, _, _, _, _), diff(_, _, _, _, _)
RECURSIVE HandleElems(_, _, _, _, _, _), DiffKeys(_, _, _, _, _, _)

(* after element i: return the error, or go on with the next index *)
HandleNext(r, at, bt, i, p, o) ==
  IF r.err # "nil" THEN Fail(r.err) ELSE HandleElems(at, bt, i + 1, p, r.patch, o)

(* the for loop of handleValues over the indices i.. of two arrays *)
HandleElems(at, bt, i, p, patch, o) ==
  IF i >= Len(bt) THEN Ok(patch)
  ELSE HandleNext(handleValues(at[i + 1], bt[i + 1], makePath(p, IntPart(i)), patch, o),
                  at, bt, i, p, o)

handleValues(av, bv, p, patch, o) ==
  CASE av.k = "obj" ->
         IF bv.k # "obj" THEN Fail("panic")
         ELSE diff(av.m, bv.m, p, patch, o)
    [] av.k \in {"str", "num", "bool"} ->
         IF ~matchesValue(av, bv) THEN Ok(Append(patch, NewPatch("replace", p, bv)))
         ELSE Ok(patch)
    [] av.k = "arr" ->
         IF bv.k # "arr" THEN Ok(Append(patch, NewPatch("replace", p, bv)))
         ELSE IF Len(av.e) # Len(bv.e) THEN Ok(patch \o compareArray(av.e, bv.e, p, o))
         ELSE HandleElems(av.e, bv.e, 0, p, patch, o)
    [] av.k = "null" ->
         IF bv.k # "null" THEN Ok(Append(patch, NewPatch("add", p, bv)))
         ELSE Ok(patch)
    [] OTHER -> Fail("panic")

(* after one key: return the error, or go on with the keys left *)
DiffNext(r, x, y, ks, path, o) ==
  IF r.err # "nil" THEN Fail(r.err) ELSE DiffKeys(x, y, ks, path, r.patch, o)

(* the body of the first loop of diff for one key, p its path *)
DiffKey(x, y, key, p, patch, o) ==
  IF key \notin DOMAIN x THEN Ok(Append(patch, NewPatch("add", p, y[key])))
  ELSE IF ~sameType(x[key], y[key])
  THEN Ok(Append(patch, NewPatch("replace", p, y[key])))
  ELSE handleValues(x[key], y[key], p, patch, o)

(* the first loop of diff, over the keys ks of b still to visit *)
DiffKeys(x, y, ks, path, patch, o) ==
  IF ks = <<>> THEN Ok(patch)
  ELSE DiffNext(DiffKey(x, y, Head(ks), makePath(path, StrPart(Head(ks))), patch, o),
                x, y, Tail(ks), path, o)

(* the second loop of diff: a remove for every key of a that b lacks *)
DiffGone(r, gone, path) ==
  IF r.err # "nil" THEN Fail(r.err)
  ELSE Ok(r.patch \o [i \in 1..Len(gone) |->
                        NewPatch("remove", makePath(path, StrPart(gone[i])), Nil)])

diff(x, y, path, patch, o) ==
  DiffGone(DiffKeys(x, y, KeysOf(y, o), path, patch, o),
           SelectSeq(KeysOf(x, o), LAMBDA key : key \notin DOMAIN y), path)

(* Decoding a byte slice into a map[string]interface{}: an object gives   *)
(* its map, null leaves the nil map, anything else is an error.           *)
DecodeMap(x) ==
  IF ~x.valid THEN [ok |-> FALSE, m |-> EmptyObj.m]
  ELSE IF x.v.k = "obj" THEN [ok |-> TRUE, m |-> x.v.m]
  ELSE IF x.v.k = "null" THEN [ok |-> TRUE, m |-> EmptyObj.m]
  ELSE [ok |-> FALSE, m |-> EmptyObj.m]

DiffDecoded(aI, bI, key, patch, o) ==
  IF ~aI.ok THEN Fail("parse")
  ELSE IF ~bI.ok THEN Fail("parse")
  ELSE diff(aI.m, bI.m, key, patch, o)

diffObjects(x, y, key, patch, o) ==
  DiffDecoded(DecodeMap(x), DecodeMap(y), key, patch, o)

-----------------------------------------------------------------------------
(* Input buffers.  A buffer is its text together with what the decoder     *)
(* makes of it: kind "array" (a JSON array, elems its raw elements),       *)
(* "value" (any other JSON value, val) or "bad" (malformed JSON).          *)

RECURSIVE JoinTexts(_)
JoinTexts(rs) ==
  IF rs = <<>> THEN <<>>
  ELSE IF Len(rs) = 1 THEN Text(rs[1])
  ELSE Text(rs[1]) \o <<",">> \o JoinTexts(Tail(rs))

Lead(fmt) == IF fmt = 0 THEN <<>> ELSE <<" ">>

ArrayBuf(rs, fmt) ==
  [text |-> Lead(fmt) \o <<"[">> \o JoinTexts(rs) \o <<"]">>,
   kind |-> "array", elems |-> rs, val |-> Nil]

ValueBuf(v, fmt) ==
  [text |-> Lead(fmt) \o Marshal(v), kind |-> "value", elems |-> <<>>, val |-> v]

BadBuf(t) == [text |-> t, kind |-> "bad", elems |-> <<>>, val |-> Nil]

(* the value a buffer spells, when it is valid JSON *)
BufValue(x) == IF x.kind = "array" THEN Arr([i \in 1..Len(x.elems) |-> x.elems[i].v])
               ELSE x.val

RECURSIVE TrimLeft(_), TrimRight(_)
TrimLeft(t) == IF t # <<>> /\ Head(t) = " " THEN TrimLeft(Tail(t)) ELSE t

TrimRight(t) ==
  IF t # <<>> /\ t[Len(t)] = " " THEN TrimRight(SubSeq(t, 1, Len(t) - 1)) ELSE t

TrimSpace(t) == TrimRight(TrimLeft(t))

hasPrefix(t, c) == t # <<>> /\ Head(t) = c

hasSuffix(t, c) == t # <<>> /\ t[Len(t)] = c

Bracketed(t) == hasPrefix(t, "[") /\ hasSuffix(t, "]")

(* a resemblesJSONArray that tests the opening bracket alone *)
resemblesPrefixOnly(input) == hasPrefix(TrimSpace(input), "[")

resemblesJSONArray(input) == Bracketed(TrimSpace(input))

-----------------------------------------------------------------------------
(* CreatePatch *)

Texts(rs) == [i \in 1..Len(rs) |-> Text(rs[i])]

(* the ascending-window loop without its third test: nothing compares the *)
(* elements in between                                                     *)
AscScanUnshifted(O, M) ==
  IF \E key \in 0..(Len(M) - 1) :
       \/ key < Len(M) - 1 /\ O[1] = M[key + 1]
       \/ key > 0 /\ M[Len(M)] = O[key + 1]
  THEN 1 ELSE 0

(* the ascending-window loop over the texts O of original and M of        *)
(* modified, its first test also looking at the last element of modified  *)
AscScanEager(O, M) ==
  IF \E key \in 0..(Len(M) - 1) :
       \/ O[1] = M[key + 1]
       \/ key > 0 /\ M[Len(M)] = O[key + 1]
       \/ key < Len(M) - 1 /\ O[key + 2] # M[key + 1]
  THEN 1 ELSE 0

(* the ascending-window loop over the texts O of original and M of        *)
(* modified: 1 when it finds a difference, else 0                          *)
AscScan(O, M) ==
  IF \E key \in 0..(Len(M) - 1) :
       \/ key < Len(M) - 1 /\ O[1] = M[key + 1]
       \/ key > 0 /\ M[Len(M)] = O[key + 1]
       \/ key < Len(M) - 1 /\ O[key + 2] # M[key + 1]
  THEN 1 ELSE 0

diffAscEager(original, modified) == AscScanEager(Texts(original), Texts(modified))

diffAsc(original, modified) == AscScan(Texts(original), Texts(modified))

(* the descending-window loop, its second test also looking at the first  *)
(* element of modified                                                     *)
DscScanEager(O, M) ==
  IF \E key \in 0..(Len(M) - 1) :
       \/ key < Len(M) - 1 /\ M[1] = O[key + 1]
       \/ O[Len(M)] = M[key + 1]
       \/ key < Len(M) - 1 /\ M[key + 2] # O[key + 1]
  THEN 1 ELSE 0

(* the descending-window loop: 1 when it finds a difference, else 0 *)
DscScan(O, M) ==
  IF \E key \in 0..(Len(M) - 1) :
       \/ key < Len(M) - 1 /\ M[1] = O[key + 1]
       \/ key > 0 /\ O[Len(M)] = M[key + 1]
       \/ key < Len(M) - 1 /\ M[key + 2] # O[key + 1]
  THEN 1 ELSE 0

diffDscEager(original, modified) == DscScanEager(Texts(original), Texts(modified))

diffDsc(original, modified) == DscScan(Texts(original), Texts(modified))

RECURSIVE ArrayKeys(_, _, _, _, _)

(* after index key: return the error, or go on with the next index *)
ArrayNext(r, original, modified, key, o) ==
  IF r.err # "nil" THEN Fail(r.err)
  ELSE ArrayKeys(original, modified, key + 1, r.patch, o)

(* the body of the loop of CreatePatch for one index of modified *)
ArrayKey(original, bv, key, p, patch, o) ==
  IF key >= Len(original) THEN Ok(Append(patch, NewPatch("add", p, RawValue(bv))))
  ELSE IF ~sameRawType(original[key + 1], bv)
  THEN Ok(Append(patch, NewPatch("replace", p, RawValue(bv))))
  ELSE diffObjects([valid |-> TRUE, v |-> original[key + 1].v],
                   [valid |-> TRUE, v |-> bv.v],
                   <<"/">> \o Itoa(key) \o <<"/">>, patch, o)

(* the loop of CreatePatch over the indices key.. of modified *)
ArrayKeys(original, modified, key, patch, o) ==
  IF key >= Len(modified) THEN Ok(patch)
  ELSE ArrayNext(ArrayKey(original, modified[key + 1], key,
                          makePath(<<>>, IntPart(key)), patch, o),
                 original, modified, key, o)

(* the keys of original that modified lacks, in ascending order *)
MissingKeys(original, modified) ==
  [i \in 1..(IF Len(original) > Len(modified) THEN Len(original) - Len(modified) ELSE 0)
     |-> Len(modified) + i - 1]

(* the removes that end the patch of two arrays *)
ArrayRemoves(r, removes) ==
  IF r.err # "nil" THEN Fail(r.err)
  ELSE Ok(r.patch \o [i \in 1..Len(removes) |->
                        NewPatch("remove", makePath(<<>>, IntPart(removes[i])), Nil)])

(* CreatePatch on two decoded arrays; length is len(modified) - 1 *)
DiffArrays(original, modified, length, o) ==
  IF Len(modified) = Len(original) /\ Len(original) > 2
     /\ diffAsc(original, modified) = 0
  THEN Ok(<<NewPatch("remove", makePath(<<>>, IntPart(0)), Nil),
            NewPatch("add", makePath(<<>>, IntPart(length)),
                     RawValue(modified[length + 1]))>>)
  ELSE IF Len(modified) = Len(original) /\ Len(original) > 2
          /\ diffDsc(original, modified) = 0
  THEN Ok(<<NewPatch("add", makePath(<<>>, IntPart(0)), RawValue(modified[1])),
            NewPatch("remove", makePath(<<>>, IntPart(length + 1)), Nil)>>)
  ELSE ArrayRemoves(ArrayKeys(original, modified, 0, <<>>, o),
                    sortDescending(MissingKeys(original, modified)))

(* CreatePatch once both buffers are classified *)
DiffClassified(x, y, originalResemblesArray, modifiedResemblesArray, o) ==
  IF originalResemblesArray /\ modifiedResemblesArray THEN
    IF x.kind # "array" THEN Fail("parse")
    ELSE IF y.kind # "array" THEN Fail("parse")
    ELSE DiffArrays(x.elems, y.elems, Len(y.elems) - 1, o)
  ELSE IF ~originalResemblesArray /\ ~modifiedResemblesArray THEN
    diffObjects([valid |-> x.kind # "bad", v |-> BufValue(x)],
                [valid |-> y.kind # "bad", v |-> BufValue(y)], <<>>, <<>>, o)
  ELSE Fail(errBadMergeTypes)

(* CreatePatch after the byte comparison of the two buffers *)
DiffDocuments(x, y, o) ==
  DiffClassified(x, y, resemblesJSONArray(x.text), resemblesJSONArray(y.text), o)

(* a CreatePatch that lacks the bytes.Equal shortcut *)
CreatePatchNoShortcut(x, y, o) == DiffDocuments(x, y, o)

CreatePatch(x, y, o) ==
  IF x.text = y.text THEN Ok(<<>>) ELSE DiffDocuments(x, y, o)

-----------------------------------------------------------------------------
(* The patch executor: add, remove and replace as the diff emits them.     *)

(* the reference tokens of a pointer: the text after each "/" *)
RECURSIVE SplitPath(_, _, _)
SplitPath(path, cur, started) ==
  IF path = <<>> THEN (IF started THEN <<cur>> ELSE <<>>)
  ELSE IF Head(path) = "/"
       THEN (IF started THEN <<cur>> ELSE <<>>) \o SplitPath(Tail(path), <<>>, TRUE)
       ELSE SplitPath(Tail(path), Append(cur, Head(path)), started)

(* "~1" to "/", then "~0" to "~" *)
RECURSIVE rfc6901Decoder(_)
rfc6901Decoder(s) ==
  IF s = <<>> THEN <<>>
  ELSE IF Len(s) >= 2 /\ s[1] = "~" /\ s[2] = "1"
       THEN <<"/">> \o rfc6901Decoder(SubSeq(s, 3, Len(s)))
  ELSE IF Len(s) >= 2 /\ s[1] = "~" /\ s[2] = "0"
       THEN <<"~">> \o rfc6901Decoder(SubSeq(s, 3, Len(s)))
  ELSE <<Head(s)>> \o rfc6901Decoder(Tail(s))

DecodeAll(parts) == [i \in 1..Len(parts) |-> rfc6901Decoder(parts[i])]

Tokens(path) == DecodeAll(SplitPath(path, <<>>, FALSE))

IsDigit(c) == \E d \in 1..Len(Digits) : Digits[d] = c

DigitValue(c) == (CHOOSE d \in 1..Len(Digits) : Digits[d] = c) - 1

(* the index a token spells, or -1 when it is not a decimal number *)
RECURSIVE Atoi(_)
Atoi(t) ==
  IF t = <<>> \/ \E i \in 1..Len(t) : ~IsDigit(t[i]) THEN -1
  ELSE IF Len(t) = 1 THEN DigitValue(t[1])
  ELSE Atoi(SubSeq(t, 1, Len(t) - 1)) * 10 + DigitValue(t[Len(t)])

Done(v) == [ok |-> TRUE, v |-> v, err |-> "nil"]

(* failure e, naming the path p *)
AbortAt(e, p) == [ok |-> FALSE, v |-> Nil, err |-> e, arg |-> p]

Abort(e) == AbortAt(e, <<>>)

InsertAt(es, i, v) == SubSeq(es, 1, i) \o <<v>> \o SubSeq(es, i + 1, Len(es))

DeleteAt(es, i) == SubSeq(es, 1, i) \o SubSeq(es, i + 2, Len(es))

SetKey(m, key, v) == [q \in DOMAIN m \cup {key} |-> IF q = key THEN v ELSE m[q]]

DelKey(m, key) == [q \in DOMAIN m \ {key} |-> m[q]]

(* add, replace or remove of the key tok of an object *)
ApplyKey(cur, kind, tok, val) ==
  CASE kind = "add" -> Done(Obj(SetKey(cur.m, tok, val)))
    [] kind = "replace" ->
         IF tok \in DOMAIN cur.m THEN Done(Obj(SetKey(cur.m, tok, val)))
         ELSE Abort("not found")
    [] kind = "remove" ->
         IF tok \in DOMAIN cur.m THEN Done(Obj(DelKey(cur.m, tok)))
         ELSE Abort("not found")

(* a token of decimal digits *)
IsIndex(t) == t # <<>> /\ \A i \in 1..Len(t) : IsDigit(t[i])

(* a token that counts from the end: a minus sign and decimal digits *)
IsNegative(t) == Len(t) >= 2 /\ t[1] = "-" /\ IsIndex(Tail(t))

EndToken == <<"-">>

IsIndexToken(t) == t = EndToken \/ IsIndex(t) \/ IsNegative(t)

(* an ElemIndex whose tokens from the end stop at the first element *)
ElemIndexClamped(t, n) ==
  IF t = EndToken THEN n
  ELSE IF IsNegative(t) THEN (IF n - Atoi(Tail(t)) < 0 THEN 0 ELSE n - Atoi(Tail(t)))
  ELSE Atoi(t)

(* the element an index token names in an array of n elements; the end    *)
(* token names the place one past the last element                        *)
ElemIndex(t, n) ==
  IF t = EndToken THEN n
  ELSE IF IsNegative(t) THEN n - Atoi(Tail(t))
  ELSE Atoi(t)

(* the place an index token names for an insertion into n elements *)
InsertIndex(t, n) ==
  IF t = EndToken THEN n
  ELSE IF IsNegative(t) THEN n + 1 - Atoi(Tail(t))
  ELSE Atoi(t)

(* add, replace or remove at the index token tok of an array *)
ApplyIndex(cur, kind, tok, val) ==
  IF ~IsIndexToken(tok) THEN Abort("bad path")
  ELSE CASE kind = "add" ->
              IF InsertIndex(tok, Len(cur.e)) \notin 0..Len(cur.e)
              THEN Abort("out of bounds")
              ELSE Done(Arr(InsertAt(cur.e, InsertIndex(tok, Len(cur.e)), val)))
         [] kind = "replace" ->
              IF ElemIndex(tok, Len(cur.e)) \notin 0..(Len(cur.e) - 1)
              THEN Abort("not found")
              ELSE Done(Arr([cur.e EXCEPT ![ElemIndex(tok, Len(cur.e)) + 1] = val]))
         [] kind = "remove" ->
              IF ElemIndex(tok, Len(cur.e)) \notin 0..(Len(cur.e) - 1)
              THEN Abort("out of bounds")
              ELSE Done(Arr(DeleteAt(cur.e, ElemIndex(tok, Len(cur.e)))))

(* one operation at the container cur that holds the last token *)
ApplyLeaf(cur, kind, tok, val) ==
  CASE cur.k = "obj" -> ApplyKey(cur, kind, tok, val)
    [] cur.k = "arr" -> ApplyIndex(cur, kind, tok, val)
    [] OTHER -> Abort("not found")

(* the object cur with the outcome r of its member tok put back *)
PutKey(cur, tok, r) == IF r.ok THEN Done(Obj(SetKey(cur.m, tok, r.v))) ELSE r

(* the array cur with the outcome r of its element i put back *)
PutIndex(cur, i, r) == IF r.ok THEN Done(Arr([cur.e EXCEPT ![i + 1] = r.v])) ELSE r

RECURSIVE ApplyAt(_, _, _, _)

(* resolve the first token in an array and go on below it *)
ApplyBelowIndex(cur, i, toks, kind, val) ==
  IF i < 0 \/ i >= Len(cur.e) THEN Abort("not found")
  ELSE PutIndex(cur, i, ApplyAt(cur.e[i + 1], Tail(toks), kind, val))

(* resolve the tokens from cur down to the target's container, apply the  *)
(* operation there and rebuild the path back up                            *)
ApplyAt(cur, toks, kind, val) ==
  IF toks = <<>> THEN Abort("bad path")
  ELSE IF Len(toks) = 1 THEN ApplyLeaf(cur, kind, toks[1], val)
  ELSE CASE cur.k = "obj" ->
              IF Head(toks) \notin DOMAIN cur.m THEN Abort("not found")
              ELSE PutKey(cur, Head(toks),
                          ApplyAt(cur.m[Head(toks)], Tail(toks), kind, val))
         [] cur.k = "arr" -> ApplyBelowIndex(cur, Atoi(Head(toks)), toks, kind, val)
         [] OTHER -> Abort("not found")

(* the value the tokens toks lead to from cur *)
RECURSIVE Find(_, _)
Find(cur, toks) ==
  IF toks = <<>> THEN Done(cur)
  ELSE CASE cur.k = "obj" ->
              IF Head(toks) \in DOMAIN cur.m THEN Find(cur.m[Head(toks)], Tail(toks))
              ELSE Abort("not found")
         [] cur.k = "arr" ->
              IF /\ IsIndexToken(Head(toks))
                 /\ ElemIndex(Head(toks), Len(cur.e)) \in 0..(Len(cur.e) - 1)
              THEN Find(cur.e[ElemIndex(Head(toks), Len(cur.e)) + 1], Tail(toks))
              ELSE Abort("not found")
         [] OTHER -> Abort("not found")

(* the value a test compares: the one at the path, null where none is *)
Tested(found) == IF found.ok THEN found.v ELSE Nil

(* a test that never fails *)
TestOpHolds(cur, o) == Done(cur)

(* test: the document stays as it is, or the failure names the path *)
TestOp(cur, o) ==
  IF Tested(Find(cur, Tokens(o.path))) = Decoded(o.value) THEN Done(cur)
  ELSE AbortAt("testing value %s failed", o.path)

(* move, second half: the value found at from is added at path to the     *)
(* document left by the removal                                            *)
MoveTo(removed, o, found) ==
  IF ~removed.ok THEN removed
  ELSE ApplyAt(removed.v, Tokens(o.path), "add", found.v)

(* a move that adds at path first and removes at from afterwards *)
RemoveAfter(added, o) ==
  IF ~added.ok THEN added ELSE ApplyAt(added.v, Tokens(o.from), "remove", Nil)

MoveOpAddFirst(cur, o) ==
  IF ~Find(cur, Tokens(o.from)).ok THEN Abort("not found")
  ELSE RemoveAfter(ApplyAt(cur, Tokens(o.path), "add", Find(cur, Tokens(o.from)).v), o)

MoveOp(cur, o) ==
  IF ~Find(cur, Tokens(o.from)).ok THEN Abort("not found")
  ELSE MoveTo(ApplyAt(cur, Tokens(o.from), "remove", Nil), o,
              Find(cur, Tokens(o.from)))

CopyOp(cur, o) ==
  IF ~Find(cur, Tokens(o.from)).ok THEN Abort("not found")
  ELSE ApplyAt(cur, Tokens(o.path), "add", Find(cur, Tokens(o.from)).v)

ApplyOp(cur, o) ==
  CASE o.op = "test" -> TestOp(cur, o)
    [] o.op = "move" -> MoveOp(cur, o)
    [] o.op = "copy" -> CopyOp(cur, o)
    [] OTHER -> ApplyAt(cur, Tokens(o.path), o.op, Decoded(o.value))

(* the document an operation of the list is applied to: the working      *)
(* document cur, not the original the call was given                     *)
Pristine(cur, original) == original

Working(cur, original) == cur

(* the serialized size of the value a copy operation copies *)
CopySize(cur, o) ==
  IF o.op = "copy" /\ Find(cur, Tokens(o.from)).ok
  THEN Len(Marshal(Find(cur, Tokens(o.from)).v))
  ELSE 0

(* a Limited that rejects a size equal to the limit as well *)
LimitedBelow(cur, o, size, lim) ==
  IF lim > 0 /\ size >= lim THEN Abort("copy size limit") ELSE ApplyOp(cur, o)

(* one operation of a call that has copied size bytes so far, this        *)
(* operation included, under the limit lim; no limit is set when lim is 0 *)
Limited(cur, o, size, lim) ==
  IF lim > 0 /\ size > lim THEN Abort("copy size limit") ELSE ApplyOp(cur, o)

-----------------------------------------------------------------------------
(* The inputs.  Each family is a set of buffers; a run diffs two buffers   *)
(* of one family and replays the patch on the first.                       *)

MaxLen == 3

MaxTop == 3

KE == <<>>

KA == <<"a">>

KX == <<"x">>

KT == <<"~">>

KS == <<"/">>

AllKeys == {KE, KA, KX}

Num1 == Num(<<"1">>)

Num2 == Num(<<"2">>)

Num12 == Num(<<"1", "2">>)

StrX == Str(<<"x">>)

(* all sequences over S of length at most n *)
RECURSIVE SeqsUpTo(_, _)
SeqsUpTo(S, n) ==
  IF n = 0 THEN {<<>>}
  ELSE LET shorter == SeqsUpTo(S, n - 1)
       IN  shorter \cup {Append(s, x) : s \in {t \in shorter : Len(t) = n - 1}, x \in S}

(* the orders in which a run may visit map keys and hash buckets *)
Orders ==
  {[keys |-> p, rev |-> r] :
     p \in {q \in SeqsUpTo(AllKeys, Cardinality(AllKeys)) :
              Len(q) = Cardinality(AllKeys) /\ \A k1 \in AllKeys : \E i \in 1..Len(q) : q[i] = k1},
     r \in BOOLEAN}

(* objects holding one array under the key "a" *)
NestedElems == {Nil, Num1, Num2, Obj1(KX, Num1)}

NestedDocs == {ValueBuf(Obj1(KA, Arr(es)), 0) : es \in SeqsUpTo(NestedElems, MaxLen)}

(* objects holding one array of scalars under the key "a" *)
ScalarElems == {Num1, Num2, StrX}

ScalarDocs == {ValueBuf(Obj1(KA, Arr(es)), 0) : es \in SeqsUpTo(ScalarElems, MaxLen)}

(* objects over the keys "" and "x", one level of nesting *)
MemberValues == {Num1, Num2, Nil, StrX, EmptyObj, Obj1(KX, Num1), Obj1(KX, Num2),
                 Obj1(KE, Num1)}

ObjectValues ==
  {Obj([q \in ks |-> f[q]]) : ks \in SUBSET {KE, KX}, f \in [{KE, KX} -> MemberValues]}

ObjectDocs == {ValueBuf(v, 0) : v \in ObjectValues}

(* objects whose keys need escaping in a pointer, one level of nesting *)
KeyValues == {Num1, Num2, Obj1(KE, Num1), Obj1(KT, Num1), Obj1(KS, Num2)}

KeyDocs ==
  {ValueBuf(Obj([q \in ks |-> f[q]]), 0) :
     ks \in SUBSET {KE, KT, KS}, f \in [{KE, KT, KS} -> KeyValues]}

(* top-level arrays of objects, one of them in two spellings *)
TopElems == {Raw(Obj1(KX, Num1), 0), Raw(Obj1(KX, Num2), 0), Raw(Obj1(KX, StrX), 0),
             Raw(Obj1(KX, Num1), 1)}

TopDocs == {ArrayBuf(rs, 0) : rs \in SeqsUpTo(TopElems, MaxTop)}

(* top-level arrays whose elements are objects, null and a number *)
PositionalElems == {Raw(Obj1(KX, Num1), 0), Raw(Obj1(KX, Num2), 0), Raw(Nil, 0),
                    Raw(Num1, 0)}

PositionalDocs == {ArrayBuf(rs, 0) : rs \in SeqsUpTo(PositionalElems, MaxTop)}

(* a few buffers of every kind, malformed ones included *)
MixedDocs ==
  {BadBuf(<<"{", "i", "}">>), BadBuf(<<"[", "i", "]">>), BadBuf(<<"[", "i">>),
   BadBuf(<<"i", "]">>),
   ValueBuf(Num1, 0), ValueBuf(Num2, 0), ValueBuf(StrX, 0), ValueBuf(Nil, 0),
   ValueBuf(Bool(TRUE), 0), ValueBuf(EmptyObj, 0), ValueBuf(EmptyObj, 1),
   ValueBuf(Obj1(KA, Num1), 0),
   ArrayBuf(<<>>, 0), ArrayBuf(<<>>, 1), ArrayBuf(<<Raw(Num1, 0)>>, 0),
   ArrayBuf(<<Raw(Num12, 0)>>, 0), ArrayBuf(<<Raw(Num2, 0), Raw(Nil, 0)>>, 0),
   ArrayBuf(<<Raw(Bool(TRUE), 0), Raw(EmptyObj, 0)>>, 0),
   ArrayBuf(<<Raw(Bool(FALSE), 0), Raw(Obj1(KA, Num1), 0), Raw(Arr(<<>>), 0)>>, 0)}

(* documents for Apply: one array of at most MaxArr elements under "a" *)
MaxArr == 2

MaxOps == 2

ApplyElems == {Num1, StrX}

ApplyDocs == {ValueBuf(Obj1(KA, Arr(es)), 0) : es \in SeqsUpTo(ApplyElems, MaxArr)}

PY == <<"/", "y">>

PA0 == <<"/", "a", "/", "0">>

PA1 == <<"/", "a", "/", "1">>

PA2 == <<"/", "a", "/", "2">>

PEnd == <<"/", "a", "/", "-">>

PNeg2 == <<"/", "a", "/", "-", "2">>

(* the operations a decoded patch is made of *)
PatchOps ==
  {Op("add", p, Num1, <<>>) : p \in {PY, PEnd}}
  \cup {Op("replace", PA0, Nil, <<>>), Op("test", <<>>, Nil, <<>>)}
  \cup {Op("test", p, v, <<>>) : p \in {PY, PA0}, v \in {Nil, Num1}}
  \cup {Op("remove", p, Nil, <<>>) : p \in {PA0, PA1, PA2, PEnd, PNeg2}}
  \cup {Op("move", p, Nil, f) : p \in {PA1, PA2}, f \in {PA0, PA1}}
  \cup {Op("move", PEnd, Nil, PA0)}
  \cup {Op("copy", PEnd, Nil, f) : f \in {PA0, PA1}}

(* the operations of the patches of successive calls, and the calls of a   *)
(* run                                                                     *)
AgainOps ==
  {Op("copy", PEnd, Nil, f) : f \in {PA0, PA1}}
  \cup {Op("test", PA0, Num1, <<>>), Op("remove", PA0, Nil, <<>>)}

MaxCalls == 2

(* values of every kind, objects over different keys among them *)
MatchValues ==
  {Nil, Num1, Num2, StrX, Str(<<"1">>), Bool(TRUE), Bool(FALSE), EmptyObj,
   Obj1(KA, Nil), Obj1(KX, Nil), Obj1(KA, Num1), Obj1(KX, Num1),
   Obj2(KA, Num1, KX, Nil), Obj1(KA, Obj1(KX, Nil)), Obj1(KA, Obj1(KA, Nil)),
   Arr(<<>>), Arr(<<Nil>>), Arr(<<Num1>>), Arr(<<Num1, Num2>>), Arr(<<Num2, Num1>>),
   Arr(<<Obj1(KA, Nil)>>), Arr(<<Obj1(KX, Nil)>>)}

MatchDocs == {ValueBuf(v, 0) : v \in MatchValues}

(* the limits a run is configured with; 0 leaves the limit unset *)
CopyLimits == {0, 5, 6}

-----------------------------------------------------------------------------
(* The run: CreatePatch(a, b), then Apply of the returned patch to a.      *)

InitOver(F) ==
  /\ a \in F
  /\ b \in F
  /\ pc = "start"
  /\ res = Ok(<<>>)
  /\ doc = Nil
  /\ applied = 0
  /\ aerr = "nil"
  /\ failedPath = <<>>
  /\ accumulatedCopySize = 0
  /\ AccumulatedCopySizeLimit = 0
  /\ wire = <<>>
  /\ matches = FALSE
  /\ calls = 0
  /\ earlier = 0

Diff ==
  /\ pc = "start"
  /\ \E o \in Orders : res' = CreatePatch(a, b, o)
  /\ pc' = "diffed"
  /\ UNCHANGED <<a, b, doc, applied, aerr, failedPath, accumulatedCopySize,
                 AccumulatedCopySizeLimit, wire, matches, calls, earlier>>

(* json.Marshal of the returned operations, one text for each *)
Encode ==
  /\ pc = "diffed"
  /\ res.err = "nil"
  /\ wire' = [n \in 1..Len(res.patch) |-> MarshalJSON(res.patch[n])]
  /\ pc' = "encoded"
  /\ UNCHANGED <<a, b, res, doc, applied, aerr, failedPath, accumulatedCopySize,
                 AccumulatedCopySizeLimit, matches, calls, earlier>>

(* an Apply that goes on from the copy size the call before it reached *)
StartApplyCarry ==
  /\ pc \in {"diffed", "decoded"}
  /\ res.err = "nil"
  /\ a.kind # "bad"
  /\ calls < MaxCalls
  /\ doc' = BufValue(a)
  /\ applied' = 0
  /\ aerr' = "nil"
  /\ calls' = calls + 1
  /\ pc' = "apply"
  /\ UNCHANGED <<a, b, res, failedPath, accumulatedCopySize, AccumulatedCopySizeLimit,
                 wire, matches, earlier>>

StartApply ==
  /\ pc \in {"diffed", "decoded"}
  /\ res.err = "nil"
  /\ a.kind # "bad"
  /\ calls < MaxCalls
  /\ doc' = BufValue(a)
  /\ applied' = 0
  /\ aerr' = "nil"
  /\ accumulatedCopySize' = 0
  /\ calls' = calls + 1
  /\ pc' = "apply"
  /\ UNCHANGED <<a, b, res, failedPath, AccumulatedCopySizeLimit, wire, matches,
                 earlier>>

(* the outcome r of one operation: the next document, or the error *)
Outcome(r) ==
  IF r.ok
  THEN doc' = r.v /\ applied' = applied + 1 /\ UNCHANGED <<aerr, failedPath, pc>>
  ELSE /\ aerr' = r.err /\ failedPath' = r.arg /\ pc' = "done"
       /\ UNCHANGED <<doc, applied>>

ApplyStep ==
  /\ pc = "apply"
  /\ applied < Len(res.patch)
  /\ accumulatedCopySize'
       = accumulatedCopySize + CopySize(doc, res.patch[applied + 1])
  /\ Outcome(Limited(Working(doc, BufValue(a)), res.patch[applied + 1],
                     accumulatedCopySize + CopySize(doc, res.patch[applied + 1]),
                     AccumulatedCopySizeLimit))
  /\ UNCHANGED <<a, b, res, AccumulatedCopySizeLimit, wire, matches, calls, earlier>>

ApplyDone ==
  /\ pc = "apply"
  /\ applied = Len(res.patch)
  /\ pc' = "done"
  /\ UNCHANGED <<a, b, res, doc, applied, aerr, failedPath, accumulatedCopySize,
                 AccumulatedCopySizeLimit, wire, matches, calls, earlier>>

Next == Diff \/ StartApply \/ ApplyStep \/ ApplyDone

Init == InitOver(NestedDocs) \/ InitOver(ScalarDocs) \/ InitOver(ObjectDocs)
        \/ InitOver(TopDocs) \/ InitOver(MixedDocs)

Spec == Init /\ [][Next]_vars

InitNested == InitOver(NestedDocs)

SpecNested == InitNested /\ [][Next]_vars

InitObject == InitOver(ObjectDocs)

SpecObject == InitObject /\ [][Next]_vars

InitTop == InitOver(TopDocs)

SpecTop == InitTop /\ [][Next]_vars

InitPositional == InitOver(PositionalDocs)

SpecPositional == InitPositional /\ [][Next]_vars

InitScalar == InitOver(ScalarDocs)

SpecScalar == InitScalar /\ [][Next]_vars

InitKeys == InitOver(KeyDocs)

SpecKeys == InitKeys /\ [][Next]_vars

(* matchesValue on the values of the two buffers *)
Match ==
  /\ pc = "start"
  /\ matches' = matchesValue(BufValue(a), BufValue(b))
  /\ pc' = "matched"
  /\ UNCHANGED <<a, b, res, doc, applied, aerr, failedPath, accumulatedCopySize,
                 AccumulatedCopySizeLimit, wire, calls, earlier>>

NextMatch == Match

InitMatch == InitOver(MatchDocs)

SpecMatch == InitMatch /\ [][NextMatch]_vars

(* CreatePatch, then the wire form of the returned operations *)
NextWire == Diff \/ Encode

SpecWire == InitObject /\ [][NextWire]_vars

(* Apply of a decoded patch to a document, under a copy-size limit *)
InitApply ==
  /\ a \in ApplyDocs
  /\ b = a
  /\ pc = "decoded"
  /\ res \in {Ok(ops) : ops \in SeqsUpTo(PatchOps, MaxOps)}
  /\ doc = Nil
  /\ applied = 0
  /\ aerr = "nil"
  /\ failedPath = <<>>
  /\ accumulatedCopySize = 0
  /\ AccumulatedCopySizeLimit \in CopyLimits
  /\ wire = <<>>
  /\ matches = FALSE
  /\ calls = 0
  /\ earlier = 0

NextApply == StartApply \/ ApplyStep \/ ApplyDone

SpecApply == InitApply /\ [][NextApply]_vars

(* Apply called again on the same document, with a patch of its own, once *)
(* the call before it has returned; earlier keeps the bytes the calls     *)
(* that have returned counted                                              *)
ApplyAgain ==
  /\ pc = "done"
  /\ calls < MaxCalls
  /\ res' \in {Ok(ops) : ops \in SeqsUpTo(AgainOps, MaxOps)}
  /\ earlier' = earlier + accumulatedCopySize
  /\ pc' = "decoded"
  /\ UNCHANGED <<a, b, doc, applied, aerr, failedPath, accumulatedCopySize,
                 AccumulatedCopySizeLimit, wire, matches, calls>>

InitAgain ==
  /\ InitApply
  /\ res \in {Ok(ops) : ops \in SeqsUpTo(AgainOps, MaxOps)}

NextAgain == StartApply \/ ApplyStep \/ ApplyDone \/ ApplyAgain

SpecAgain == InitAgain /\ [][NextAgain]_vars

InitMixed == InitOver(MixedDocs)

SpecMixed == InitMixed /\ [][Next]_vars

-----------------------------------------------------------------------------
(* Properties *)

ValidPair == a.kind # "bad" /\ b.kind # "bad"

SameRootKind == (a.kind = "array") <=> (b.kind = "array")

Returned == pc # "start"

(* C1: for every pair of valid documents of matching root kind,           *)
(* CreatePatch succeeds and replaying the returned operations on the      *)
(* original, in order, yields a document deep-equal to the modified one.  *)
C1_RoundTrip ==
  (ValidPair /\ SameRootKind) =>
     /\ Returned => res.err = "nil"
     /\ pc = "done" => (aerr = "nil" /\ doc = BufValue(b))

(* C2: the diff of a valid document with itself is the empty operation    *)
(* list, with no error.                                                    *)
C2_NoOpDiff ==
  (Returned /\ a = b /\ a.kind # "bad") =>
     (res.err = "nil" /\ ~res.isNil /\ res.patch = <<>>)

C2_Witness == pc = "diffed" /\ a = b /\ a.kind = "value" /\ a.val.k = "num"

(* Two top-level arrays of the same length, longer than 2 *)
WindowPair ==
  /\ a.kind = "array"
  /\ b.kind = "array"
  /\ Len(b.elems) = Len(a.elems)
  /\ Len(a.elems) > 2

AscPatch ==
  <<NewPatch("remove", <<"/", "0">>, Nil),
    NewPatch("add", <<"/">> \o Itoa(Len(b.elems) - 1), RawValue(b.elems[Len(b.elems)]))>>

DscPatch ==
  <<NewPatch("add", <<"/", "0">>, RawValue(b.elems[1])),
    NewPatch("remove", <<"/">> \o Itoa(Len(a.elems)), Nil)>>

(* C3 as stated, for two arrays that differ: whenever every modified[i]   *)
(* equals original[i+1], the patch is a remove at /0 followed by an add   *)
(* at the last index.                                                      *)
C3_AscendingAsStated ==
  (Returned /\ WindowPair /\ BufValue(a) # BufValue(b)
     /\ \A i \in 1..(Len(a.elems) - 1) : b.elems[i].v = a.elems[i + 1].v)
  => res = Ok(AscPatch)

AscWindow ==
  /\ WindowPair
  /\ \A i \in 1..(Len(a.elems) - 1) : Text(b.elems[i]) = Text(a.elems[i + 1])
  /\ \A i \in 1..(Len(a.elems) - 1) : Text(a.elems[1]) # Text(b.elems[i])
  /\ \A i \in 2..Len(a.elems) : Text(b.elems[Len(b.elems)]) # Text(a.elems[i])

(* C3, amended: when the text of every modified[i] is the text of         *)
(* original[i+1], the text of original[0] is none of modified[0..len-2]   *)
(* and the text of modified[len-1] is none of original[1..len-1], the     *)
(* patch is exactly a remove at /0 followed by an add at /(len-1)         *)
(* carrying modified[len-1].                                               *)
C3_AscendingWindow == (Returned /\ AscWindow) => res = Ok(AscPatch)

C3_Witness == pc = "diffed" /\ AscWindow /\ Len(res.patch) = 2

(* C4 as stated, for two arrays that differ: whenever every modified[i+1] *)
(* equals original[i], the patch is an add at /0 followed by a remove at  *)
(* /L.                                                                     *)
C4_DescendingAsStated ==
  (Returned /\ WindowPair /\ BufValue(a) # BufValue(b)
     /\ \A i \in 1..(Len(a.elems) - 1) : b.elems[i + 1].v = a.elems[i].v)
  => res = Ok(DscPatch)

DscWindow ==
  /\ WindowPair
  /\ \A i \in 1..(Len(a.elems) - 1) : Text(b.elems[i + 1]) = Text(a.elems[i])
  /\ \A i \in 1..(Len(a.elems) - 1) : Text(b.elems[1]) # Text(a.elems[i])
  /\ \A i \in 2..Len(a.elems) : Text(a.elems[Len(a.elems)]) # Text(b.elems[i])

(* C4, amended: when the text of every modified[i+1] is the text of       *)
(* original[i], the text of modified[0] is none of original[0..L-2] and   *)
(* the text of original[L-1] is none of modified[1..L-1], the patch is    *)
(* exactly an add at /0 carrying modified[0] followed by a remove at /L.  *)
C4_DescendingWindow == (Returned /\ DscWindow) => res = Ok(DscPatch)

C4_Witness == pc = "diffed" /\ DscWindow /\ Len(res.patch) = 2

-----------------------------------------------------------------------------
(* Paths and operation counts used by the properties below *)

(* the RFC 6901 pointer of a sequence of reference tokens *)
Pointer(toks) == Flatten([i \in 1..Len(toks) |-> <<"/">> \o rfc6901Encoder(toks[i])])

(* path q is p or lies underneath p *)
AtOrUnder(q, p) ==
  /\ Len(q) >= Len(p)
  /\ SubSeq(q, 1, Len(p)) = p
  /\ (Len(q) = Len(p) \/ q[Len(p) + 1] = "/")

OpsAt(kind, p) ==
  {n \in 1..Len(res.patch) : res.patch[n].op = kind /\ res.patch[n].path = p}

OpsAtOrUnder(p) == {n \in 1..Len(res.patch) : AtOrUnder(res.patch[n].path, p)}

BothObjects ==
  a.kind = "value" /\ b.kind = "value" /\ a.val.k = "obj" /\ b.val.k = "obj"

(* the diff of the objects x and y found at the tokens toks, and of every *)
(* pair of objects below them that the diff reaches, is by key            *)
RECURSIVE ByKey(_, _, _)
ByKey(x, y, toks) ==
  /\ \A key \in DOMAIN y.m \ DOMAIN x.m :
       /\ Cardinality(OpsAt("add", Pointer(Append(toks, key)))) = 1
       /\ \A n \in OpsAt("add", Pointer(Append(toks, key))) :
            res.patch[n].value = y.m[key]
  /\ \A key \in DOMAIN x.m \ DOMAIN y.m :
       Cardinality(OpsAt("remove", Pointer(Append(toks, key)))) = 1
  /\ \A key \in DOMAIN x.m \cap DOMAIN y.m :
       /\ x.m[key] = y.m[key] => OpsAtOrUnder(Pointer(Append(toks, key))) = {}
       /\ (x.m[key].k = "obj" /\ y.m[key].k = "obj")
            => ByKey(x.m[key], y.m[key], Append(toks, key))

(* C5: at any depth, a key only in b yields exactly one add at its path   *)
(* carrying b's value, a key only in a exactly one remove at its path,    *)
(* and a shared key with deep-equal values no operation at or under it.   *)
C5_ObjectDiffByKey ==
  (pc = "diffed" /\ BothObjects /\ res.err = "nil") => ByKey(a.val, b.val, <<>>)

(* every location where the kinds of u and v differ has exactly one       *)
(* replace carrying v and nothing else at or underneath it                *)
RECURSIVE KindChangesReplaced(_, _, _)
KindChangesReplaced(u, v, toks) ==
  IF u.k # v.k
  THEN /\ Cardinality(OpsAt("replace", Pointer(toks))) = 1
       /\ \A n \in OpsAt("replace", Pointer(toks)) : res.patch[n].value = v
       /\ Cardinality(OpsAtOrUnder(Pointer(toks))) = 1
  ELSE IF u.k = "obj"
  THEN \A key \in DOMAIN u.m \cap DOMAIN v.m :
         KindChangesReplaced(u.m[key], v.m[key], Append(toks, key))
  ELSE IF u.k = "arr" /\ Len(u.e) = Len(v.e)
  THEN \A i \in 1..Len(u.e) :
         KindChangesReplaced(u.e[i], v.e[i], Append(toks, Itoa(i - 1)))
  ELSE TRUE

(* C6: wherever the values at the same location of original and modified  *)
(* have different kinds, the patch holds exactly one replace at that       *)
(* location, carrying modified's value, and nothing underneath.            *)
C6_TypeChangeIsReplace ==
  (pc = "diffed" /\ BothObjects /\ res.err = "nil")
    => KindChangesReplaced(a.val, b.val, <<>>)

(* C7: CreatePatch never panics on two valid documents. *)
C7_NeverPanics == (Returned /\ ValidPair) => res.err # "panic"

(* the first and the last character of t that is not white space are the  *)
(* brackets of an array                                                    *)
NonSpace(t) == SelectSeq(t, LAMBDA c : c # " ")

LooksLikeArray(t) ==
  NonSpace(t) # <<>> /\ Head(NonSpace(t)) = "[" /\ NonSpace(t)[Len(NonSpace(t))] = "]"

(* C8: when exactly one buffer looks like an array, CreatePatch returns   *)
(* the mismatch error and a nil operation list.                            *)
C8_RootMismatch ==
  (Returned /\ LooksLikeArray(a.text) # LooksLikeArray(b.text))
    => (res.err = errBadMergeTypes /\ res.isNil /\ res.patch = <<>>)

C8_Witness ==
  pc = "diffed" /\ LooksLikeArray(a.text) /\ ~LooksLikeArray(b.text) /\ b.kind = "value"

(* C9: a malformed buffer on either side gives a non-nil error and no     *)
(* operations.                                                             *)
C9_MalformedIsError ==
  (Returned /\ (a.kind = "bad" \/ b.kind = "bad"))
    => (res.err # "nil" /\ res.patch = <<>>)

-----------------------------------------------------------------------------
(* compareArray on the arrays under the key "a" of two objects *)

ArrayPair ==
  /\ BothObjects
  /\ DOMAIN a.val.m = {KA} /\ DOMAIN b.val.m = {KA}
  /\ a.val.m[KA].k = "arr" /\ b.val.m[KA].k = "arr"

UnequalArrays == ArrayPair /\ Len(a.val.m[KA].e) # Len(b.val.m[KA].e)

Count(xs, w) == Cardinality({i \in 1..Len(xs) : xs[i] = w})

(* xs[i] is one of the last Count(xs) - Count(ys) occurrences of its value *)
LastExcess(xs, ys, i) ==
  Cardinality({j \in i..Len(xs) : xs[j] = xs[i]}) <= Count(xs, xs[i]) - Count(ys, xs[i])

ElemPath(i) == <<"/", "a", "/">> \o Itoa(i)

AddsOf(ys, j) ==
  {n \in OpsAt("add", ElemPath(j - 1)) : res.patch[n].value = ys[j]}

CountAware(xs, ys) ==
  /\ \A i \in 1..Len(xs) :
       Cardinality(OpsAt("remove", ElemPath(i - 1)))
         = (IF LastExcess(xs, ys, i) THEN 1 ELSE 0)
  /\ \A j \in 1..Len(ys) :
       Cardinality(AddsOf(ys, j)) = (IF LastExcess(ys, xs, j) THEN 1 ELSE 0)
  /\ Len(res.patch)
       = Cardinality({i \in 1..Len(xs) : LastExcess(xs, ys, i)})
         + Cardinality({j \in 1..Len(ys) : LastExcess(ys, xs, j)})

(* C10: for two arrays of unequal length and every value occurring k      *)
(* times in original and m times in modified, the patch holds exactly     *)
(* max(0, k-m) removes, at the last k-m occurrences in original, and      *)
(* exactly max(0, m-k) adds, at the last m-k occurrences in modified,     *)
(* each add carrying that value.                                           *)
C10_CountAware ==
  (Returned /\ UnequalArrays) => CountAware(a.val.m[KA].e, b.val.m[KA].e)

C10_Witness ==
  /\ pc = "diffed"
  /\ UnequalArrays
  /\ \E i \in 1..Len(a.val.m[KA].e) :
       /\ Count(a.val.m[KA].e, a.val.m[KA].e[i]) = 2
       /\ Count(b.val.m[KA].e, a.val.m[KA].e[i]) = 1
  /\ \E n \in 1..Len(res.patch) : res.patch[n].op = "remove"

-----------------------------------------------------------------------------
(* The order of the operations on the elements of one array *)

LastToken(p) == Tokens(p)[Len(Tokens(p))]

Parent(p) == SubSeq(Tokens(p), 1, Len(Tokens(p)) - 1)

(* operation n adds or removes an element of an array: its last token is  *)
(* an index                                                                *)
IndexOp(n, kind) ==
  /\ res.patch[n].op = kind
  /\ Tokens(res.patch[n].path) # <<>>
  /\ Atoi(LastToken(res.patch[n].path)) >= 0

SameArray(n1, n2) == Parent(res.patch[n1].path) = Parent(res.patch[n2].path)

IndexOf(n) == Atoi(LastToken(res.patch[n].path))

RemovesDescend ==
  \A n1, n2 \in 1..Len(res.patch) :
    (n1 < n2 /\ IndexOp(n1, "remove") /\ IndexOp(n2, "remove") /\ SameArray(n1, n2))
      => IndexOf(n1) > IndexOf(n2)

AddsAscend ==
  \A n1, n2 \in 1..Len(res.patch) :
    (n1 < n2 /\ IndexOp(n1, "add") /\ IndexOp(n2, "add") /\ SameArray(n1, n2))
      => IndexOf(n1) < IndexOf(n2)

RemovesBeforeAdds ==
  \A n1, n2 \in 1..Len(res.patch) :
    (res.patch[n1].op = "remove" /\ res.patch[n2].op = "add") => n1 < n2

(* C11: among the operations on one array the removes come in strictly    *)
(* descending index order and the adds in strictly ascending index order, *)
(* and in the output of compareArray every remove precedes every add.     *)
C11_ArrayOrdering ==
  Returned => /\ RemovesDescend
              /\ AddsAscend
              /\ UnequalArrays => RemovesBeforeAdds

C11_Witness ==
  /\ pc = "diffed"
  /\ UnequalArrays
  /\ \E n1, n2, n3 \in 1..Len(res.patch) :
       /\ n1 < n2 /\ n2 < n3
       /\ IndexOp(n1, "remove") /\ IndexOp(n2, "remove") /\ IndexOp(n3, "add")
       /\ IndexOf(n1) > IndexOf(n2) + 1

-----------------------------------------------------------------------------
(* The location a path names *)

(* the tokens toks lead from v to a value *)
RECURSIVE Exists(_, _)
Exists(v, toks) ==
  IF toks = <<>> THEN TRUE
  ELSE IF v.k = "obj"
  THEN Head(toks) \in DOMAIN v.m /\ Exists(v.m[Head(toks)], Tail(toks))
  ELSE IF v.k = "arr"
  THEN /\ Atoi(Head(toks)) >= 0
       /\ Atoi(Head(toks)) < Len(v.e)
       /\ Exists(v.e[Atoi(Head(toks)) + 1], Tail(toks))
  ELSE FALSE

(* the value the tokens toks lead to from v, where Exists(v, toks) *)
RECURSIVE ValueAt(_, _)
ValueAt(v, toks) ==
  IF toks = <<>> THEN v
  ELSE IF v.k = "obj" THEN ValueAt(v.m[Head(toks)], Tail(toks))
  ELSE ValueAt(v.e[Atoi(Head(toks)) + 1], Tail(toks))

(* the value at toks was added, removed or replaced between x and y as    *)
(* the operation says                                                      *)
ChangedAt(x, y, op, toks) ==
  CASE op.op = "add" ->
         ~Exists(x, toks) /\ Exists(y, toks) /\ ValueAt(y, toks) = op.value
    [] op.op = "remove" -> Exists(x, toks) /\ ~Exists(y, toks)
    [] op.op = "replace" ->
         /\ Exists(x, toks) /\ Exists(y, toks)
         /\ ValueAt(x, toks) # ValueAt(y, toks)
         /\ ValueAt(y, toks) = op.value
    [] OTHER -> FALSE

(* C12: every path of the patch of two objects is the RFC 6901 encoding   *)
(* of the keys that lead from the root to the value the operation         *)
(* changes, and no two operations of a patch share a path.                *)
C12_PointerEncoding ==
  (pc = "diffed" /\ BothObjects /\ res.err = "nil")
    => /\ \A n \in 1..Len(res.patch) :
            /\ res.patch[n].path = Pointer(Tokens(res.patch[n].path))
            /\ ChangedAt(a.val, b.val, res.patch[n], Tokens(res.patch[n].path))
       /\ \A n1, n2 \in 1..Len(res.patch) :
            res.patch[n1].path = res.patch[n2].path => n1 = n2

-----------------------------------------------------------------------------
(* The wire form of an operation *)

(* the places of the text t where a value field starts *)
FieldAt(t) ==
  {i \in 1..Len(t) : /\ i + Len(ValueField) - 1 <= Len(t)
                     /\ SubSeq(t, i, i + Len(ValueField) - 1) = ValueField}

(* the text t ends with a value field that holds the text w *)
EndsWithValue(t, w) ==
  \E i \in FieldAt(t) : SubSeq(t, i + Len(ValueField), Len(t)) = w \o <<"}">>

(* C13: the wire form of an add or a replace always has a value field,    *)
(* the literal null when the value is nil, and the wire form of a remove  *)
(* whose value is nil has none.                                            *)
C13_WireValue ==
  pc = "encoded" =>
    \A n \in 1..Len(res.patch) :
      /\ res.patch[n].op \in {"add", "replace"}
           => /\ Cardinality(FieldAt(wire[n])) = 1
              /\ EndsWithValue(wire[n], Marshal(res.patch[n].value))
              /\ res.patch[n].value = Nil
                   => EndsWithValue(wire[n], <<"n", "u", "l", "l">>)
      /\ (res.patch[n].op = "remove" /\ res.patch[n].value = Nil)
           => FieldAt(wire[n]) = {}

C13_Witness ==
  /\ pc = "encoded"
  /\ \E n1, n2 \in 1..Len(res.patch) :
       /\ res.patch[n1].op = "add" /\ res.patch[n1].value = Nil
       /\ res.patch[n2].op = "remove" /\ res.patch[n2].value = Nil

-----------------------------------------------------------------------------
(* Apply, replayed from the original document *)

(* the document after the first n operations of ops, each applied to the  *)
(* result of the one before                                                *)
RECURSIVE Replay(_, _, _)
Replay(v, ops, n) ==
  IF n = 0 THEN v ELSE ApplyOp(Replay(v, ops, n - 1), ops[n]).v

(* the document operation n of the patch meets *)
Before(n) == Replay(BufValue(a), res.patch, n - 1)

Applying == pc \in {"apply", "done"}

(* operation n has been reached: it is done, or it is the one that failed *)
Reached(n) == n <= applied \/ (n = applied + 1 /\ pc = "done" /\ aerr # "nil")

(* C14: Apply executes the operations in list order, each against the     *)
(* document as all earlier operations of the patch left it.                *)
C14_InOrder ==
  Applying =>
    /\ doc = Replay(BufValue(a), res.patch, applied)
    /\ pc = "done" =>
         IF aerr = "nil" THEN applied = Len(res.patch)
         ELSE /\ applied < Len(res.patch)
              /\ (~ApplyOp(doc, res.patch[applied + 1]).ok \/ aerr = "copy size limit")

C14_Witness ==
  /\ pc = "done"
  /\ aerr = "nil"
  /\ Len(res.patch) = 2
  /\ ~ApplyOp(BufValue(a), res.patch[2]).ok
  /\ doc # BufValue(a)

(* the bytes the first n operations of ops copy *)
RECURSIVE Copied(_, _, _)
Copied(v, ops, n) ==
  IF n = 0 THEN 0
  ELSE Copied(v, ops, n - 1) + CopySize(Replay(v, ops, n - 1), ops[n])

CopiedBy(n) == Copied(BufValue(a), res.patch, n)

(* C15: under a limit of N bytes, Apply fails with the resource-limit     *)
(* error at the first copy after which the bytes copied so far exceed N,  *)
(* and no copy fails on the limit while they stay at or below N.          *)
C15_CopyLimit ==
  (Applying /\ AccumulatedCopySizeLimit > 0) =>
    /\ CopiedBy(applied) <= AccumulatedCopySizeLimit
    /\ (applied < Len(res.patch)
        /\ CopiedBy(applied + 1) > AccumulatedCopySizeLimit
        /\ pc = "done") => aerr = "copy size limit"
    /\ aerr = "copy size limit"
         => /\ applied < Len(res.patch)
            /\ res.patch[applied + 1].op = "copy"
            /\ CopiedBy(applied + 1) > AccumulatedCopySizeLimit

C15_Witness ==
  /\ pc = "done"
  /\ aerr = "nil"
  /\ Len(res.patch) = 2
  /\ AccumulatedCopySizeLimit > 0
  /\ CopiedBy(1) > 0
  /\ CopiedBy(2) = AccumulatedCopySizeLimit

(* the value at the tokens toks of v, null where there is none *)
ActualAt(v, toks) == IF Exists(v, toks) THEN ValueAt(v, toks) ELSE Nil

(* operation n is a test whose value differs from the one at its path *)
TestFails(n) ==
  /\ res.patch[n].op = "test"
  /\ ActualAt(Before(n), Tokens(res.patch[n].path)) # res.patch[n].value

TestError == "testing value %s failed"

(* the operations among the first n of ops that are no tests *)
Mutating(ops, n) == SelectSeq(SubSeq(ops, 1, n), LAMBDA o : o.op # "test")

(* C16: a test whose value differs from the one at its path aborts Apply  *)
(* at that operation with the error "testing value <path> failed" naming  *)
(* its path; a test never changes the document; tests that hold do not    *)
(* fail.                                                                   *)
C16_TestOperation ==
  Applying =>
    /\ \A n \in 1..Len(res.patch) :
         (Reached(n) /\ TestFails(n))
           => /\ applied = n - 1
              /\ aerr = TestError
              /\ failedPath = res.patch[n].path
    /\ aerr = TestError => TestFails(applied + 1)
    /\ doc = Replay(BufValue(a), Mutating(res.patch, applied),
                    Len(Mutating(res.patch, applied)))

C16_Witness ==
  /\ pc = "done"
  /\ aerr = TestError
  /\ applied = 1
  /\ res.patch[1].op = "test"
  /\ failedPath = PA0

(* the array that holds the target of the path p in the document v, and   *)
(* the last token of p                                                     *)
InArray(v, p) ==
  /\ Tokens(p) # <<>>
  /\ Exists(v, Parent(p))
  /\ ValueAt(v, Parent(p)).k = "arr"

ArrayOf(v, p) == ValueAt(v, Parent(p)).e

(* the last token of p names no element of an array of n elements: an     *)
(* index at or past n, an index from the end before the first element, or *)
(* the end token of an empty array                                         *)
OutOfRange(p, n) ==
  \/ IsIndex(LastToken(p)) /\ Atoi(LastToken(p)) >= n
  \/ IsNegative(LastToken(p)) /\ Atoi(Tail(LastToken(p))) > n
  \/ LastToken(p) = EndToken /\ n = 0

RemoveOutOfRange(n) ==
  /\ res.patch[n].op = "remove"
  /\ InArray(Before(n), res.patch[n].path)
  /\ OutOfRange(res.patch[n].path, Len(ArrayOf(Before(n), res.patch[n].path)))

(* C17: a remove whose index is at or past the current length of the      *)
(* array, or reaches before its first element, or is the end token of an  *)
(* empty array, fails with the out-of-bounds error and removes nothing.   *)
C17_RemoveOutOfBounds ==
  Applying =>
    \A n \in 1..Len(res.patch) :
      (Reached(n) /\ RemoveOutOfRange(n))
        => /\ applied = n - 1
           /\ aerr = "out of bounds"
           /\ doc = Before(n)

C17_Witness ==
  /\ pc = "done"
  /\ aerr = "out of bounds"
  /\ applied = 1
  /\ RemoveOutOfRange(2)
  /\ ~OutOfRange(res.patch[2].path, Len(ArrayOf(BufValue(a), res.patch[2].path)))

(* operation n moves an element of an array to an index of the same array *)
MoveWithin(n) ==
  /\ res.patch[n].op = "move"
  /\ InArray(Before(n), res.patch[n].path)
  /\ Parent(res.patch[n].from) = Parent(res.patch[n].path)
  /\ IsIndex(LastToken(res.patch[n].from))
  /\ IsIndex(LastToken(res.patch[n].path))
  /\ Atoi(LastToken(res.patch[n].from)) < Len(ArrayOf(Before(n), res.patch[n].path))

FromIndex(n) == Atoi(LastToken(res.patch[n].from))

ToIndex(n) == Atoi(LastToken(res.patch[n].path))

LenBefore(n) == Len(ArrayOf(Before(n), res.patch[n].path))

(* the array after the move: the element taken out, then put in at the    *)
(* destination counted in what is left                                     *)
Moved(es, from, to) == InsertAt(DeleteAt(es, from), to, es[from + 1])

MoveFails(n) == applied = n - 1 /\ aerr = "out of bounds" /\ doc = Before(n)

MoveDone(n) ==
  /\ applied >= n
  /\ ArrayOf(Replay(BufValue(a), res.patch, n), res.patch[n].path)
       = Moved(ArrayOf(Before(n), res.patch[n].path), FromIndex(n), ToIndex(n))

(* C18 as stated: a move within one array to an index at or past the      *)
(* length the array has after the removal fails with out-of-bounds.       *)
C18_MoveAsStated ==
  Applying =>
    \A n \in 1..Len(res.patch) :
      (Reached(n) /\ MoveWithin(n) /\ ToIndex(n) >= LenBefore(n) - 1)
        => MoveFails(n)

(* C18: a move within one array removes the element at from first and     *)
(* resolves the destination in the array that is left; a destination past *)
(* the length of that array fails with out-of-bounds, and a destination   *)
(* up to that length, the length itself included, takes the element.      *)
C18_MoveWithinArray ==
  Applying =>
    \A n \in 1..Len(res.patch) :
      (Reached(n) /\ MoveWithin(n))
        => IF ToIndex(n) > LenBefore(n) - 1 THEN MoveFails(n) ELSE MoveDone(n)

C18_Witness ==
  /\ pc = "done"
  /\ aerr = "nil"
  /\ Len(res.patch) = 1
  /\ MoveWithin(1)
  /\ FromIndex(1) = 0
  /\ ToIndex(1) = LenBefore(1) - 1
  /\ doc = Obj1(KA, Arr(<<StrX, Num1>>))

-----------------------------------------------------------------------------
(* C19: matchesValue(av, bv) is true exactly when av and bv are of the    *)
(* same kind and recursively equal: objects with the same keys and equal  *)
(* values under each, arrays of the same length with equal elements.      *)
C19_MatchesIsEquality ==
  pc = "matched" => (matches <=> BufValue(a) = BufValue(b))

-----------------------------------------------------------------------------
(* Arrays of equal length under the key "a" *)

EqualArrays == ArrayPair /\ Len(a.val.m[KA].e) = Len(b.val.m[KA].e)

(* every operation lies at or under an element, none adds or removes an   *)
(* element, and equal elements have no operation                           *)
IndexAligned(xs, ys) ==
  /\ \A n \in 1..Len(res.patch) :
       /\ \E i \in 1..Len(xs) : AtOrUnder(res.patch[n].path, ElemPath(i - 1))
       /\ \A i \in 1..Len(xs) :
            res.patch[n].path = ElemPath(i - 1) => res.patch[n].op = "replace"
  /\ \A i \in 1..Len(xs) : xs[i] = ys[i] => OpsAtOrUnder(ElemPath(i - 1)) = {}

(* C20: the diff of two arrays of the same length under an object key     *)
(* adds and removes no element of the array, holds only operations at or  *)
(* under the elements that differ, and its replay leaves an array of the  *)
(* same length whose elements are those of the modified array.            *)
C20_IndexAligned ==
  (EqualArrays /\ Returned /\ res.err = "nil") =>
    /\ IndexAligned(a.val.m[KA].e, b.val.m[KA].e)
    /\ pc = "done" => (aerr = "nil" /\ doc = BufValue(b))

-----------------------------------------------------------------------------
(* Two top-level arrays that the general loop of CreatePatch diffs *)

TopArrays == a.kind = "array" /\ b.kind = "array"

NoWindow == TopArrays /\ ~AscWindow /\ ~DscWindow

IndexPath(i) == <<"/">> \o Itoa(i)

(* the operations at or under the path p, in the order of the patch *)
OpsUnder(p) == SelectSeq(res.patch, LAMBDA op : AtOrUnder(op.path, p))

(* the operations ops, each path prefixed by p *)
Prefixed(p, ops) == [n \in 1..Len(ops) |-> [ops[n] EXCEPT !.path = p \o @]]

(* the operations under /i are those of the diff of the two elements as   *)
(* documents, moved to /i                                                  *)
InPlace(x, y, i) ==
  \E o \in Orders :
    /\ CreatePatch(ValueBuf(x.v, 0), ValueBuf(y.v, 0), o).err = "nil"
    /\ OpsUnder(IndexPath(i))
         = Prefixed(IndexPath(i), CreatePatch(ValueBuf(x.v, 0), ValueBuf(y.v, 0), o).patch)

(* index i, held by both arrays *)
SharedIndex(x, y, i) ==
  IF x.v.k # y.v.k
  THEN OpsUnder(IndexPath(i)) = <<NewPatch("replace", IndexPath(i), RawValue(y))>>
  ELSE InPlace(x, y, i)

(* the places in the patch of the operations at the path p *)
PlacesAt(p) == {n \in 1..Len(res.patch) : res.patch[n].path = p}

Positional(xs, ys) ==
  /\ \A i \in 1..Len(xs) :
       i <= Len(ys) => SharedIndex(xs[i], ys[i], i - 1)
  /\ \A j \in 1..Len(ys) :
       j > Len(xs) =>
         OpsUnder(IndexPath(j - 1)) = <<NewPatch("add", IndexPath(j - 1), RawValue(ys[j]))>>
  /\ \A j1, j2 \in (Len(xs) + 1)..Len(ys) :
       j1 < j2 => \A n1 \in PlacesAt(IndexPath(j1 - 1)), n2 \in PlacesAt(IndexPath(j2 - 1)) :
                    n1 < n2
  /\ \A i \in 1..Len(xs) :
       i > Len(ys) =>
         /\ OpsUnder(IndexPath(i - 1)) = <<NewPatch("remove", IndexPath(i - 1), Nil)>>
         /\ res.patch[Len(res.patch) - (i - Len(ys)) + 1]
              = NewPatch("remove", IndexPath(i - 1), Nil)
  /\ \A n \in 1..Len(res.patch) :
       \E i \in 1..Len(xs) + Len(ys) : AtOrUnder(res.patch[n].path, IndexPath(i - 1))

(* C21: two top-level arrays that match no sliding-window pattern are     *)
(* diffed by position: the elements at an index both hold are diffed in   *)
(* place under /i (one replace at /i when their kinds differ), an index   *)
(* only modified holds yields an add at /i carrying modified[i], in       *)
(* ascending order, and an index only original holds yields a remove at   *)
(* /i, in descending order, after all other operations.                   *)
C21_Positional ==
  (Returned /\ NoWindow) => (res.err = "nil" /\ Positional(a.elems, b.elems))

-----------------------------------------------------------------------------
(* Successive Apply calls *)

(* the bytes this call has counted: those of the operations it has done,  *)
(* and of the one it failed at                                             *)
CountedBy(n) == IF aerr = "nil" THEN CopiedBy(n) ELSE CopiedBy(n + 1)

(* C22: the accumulated copy size is scoped to one Apply call: every call *)
(* starts at zero, so that at any moment the total is the bytes copied by *)
(* the operations of the call under way, whatever calls came before it    *)
(* and however they ended.                                                 *)
C22_CallScoped ==
  Applying =>
    /\ accumulatedCopySize = CountedBy(applied)
    /\ (aerr = "copy size limit")
         <=> (AccumulatedCopySizeLimit > 0 /\ pc = "done" /\ applied < Len(res.patch)
              /\ CopiedBy(applied + 1) > AccumulatedCopySizeLimit)

C22_Witness ==
  /\ calls = 2
  /\ earlier > 0
  /\ pc = "done"
  /\ aerr = "nil"
  /\ AccumulatedCopySizeLimit > 0
  /\ accumulatedCopySize = AccumulatedCopySizeLimit

-----------------------------------------------------------------------------
(* The replay of compareArray's operations on the array under the key "a" *)

(* the same length, and every value as many times in xs as in ys *)
SameMultiset(xs, ys) ==
  /\ Len(xs) = Len(ys)
  /\ \A i \in 1..Len(ys) : Count(xs, ys[i]) = Count(ys, ys[i])
  /\ \A i \in 1..Len(xs) : Count(xs, xs[i]) = Count(ys, xs[i])

(* C23: for two arrays of unequal length, the replay of compareArray's    *)
(* operations, in order, on the original yields an array of the length of *)
(* the modified one that holds every value as many times as the modified  *)
(* one does.                                                               *)
C23_MultisetPreserved ==
  (UnequalArrays /\ pc = "done") =>
    /\ aerr = "nil"
    /\ doc.k = "obj"
    /\ DOMAIN doc.m = {KA}
    /\ doc.m[KA].k = "arr"
    /\ SameMultiset(doc.m[KA].e, b.val.m[KA].e)

C23_Witness ==
  /\ pc = "done"
  /\ UnequalArrays
  /\ aerr = "nil"
  /\ doc # BufValue(b)
  /\ \E n \in 1..Len(res.patch) : res.patch[n].op = "add"
  /\ \E i \in 1..Len(doc.m[KA].e) : Count(doc.m[KA].e, doc.m[KA].e[i]) = 2

(* the operation the replay does next stays inside the array as it is now *)
NextInBounds(n, es) ==
  /\ res.patch[n].op = "remove" => (IndexOp(n, "remove") /\ IndexOf(n) < Len(es))
  /\ res.patch[n].op = "add" => (IndexOp(n, "add") /\ IndexOf(n) <= Len(es))

(* C24: when compareArray's operations are applied in the emitted order   *)
(* to the original array, every remove targets an index below the length  *)
(* the array has at that moment and every add an index from 0 to that     *)
(* length; the replay never fails.                                         *)
C24_ReplayInBounds ==
  (UnequalArrays /\ Applying) =>
    /\ aerr = "nil"
    /\ doc.m[KA].k = "arr"
    /\ applied < Len(res.patch) => NextInBounds(applied + 1, doc.m[KA].e)

C24_Witness ==
  /\ pc = "apply"
  /\ UnequalArrays
  /\ applied = 1
  /\ Len(res.patch) = 4
  /\ res.patch[1].op = "remove"
  /\ res.patch[2].op = "add"
  /\ IndexOf(2) = Len(doc.m[KA].e)
  /\ IndexOf(4) > Len(doc.m[KA].e)

-----------------------------------------------------------------------------
(* The replay of the two operations of a sliding window *)

(* CreatePatch returned the two operations of one of its fast paths *)
FastPath == WindowPair /\ (res = Ok(AscPatch) \/ res = Ok(DscPatch))

(* C25: whenever CreatePatch takes a sliding-window fast path and returns *)
(* its two operations, applying them to the original in the returned      *)
(* order succeeds and yields exactly the modified array: the same         *)
(* elements in the same order.                                             *)
C25_WindowSound ==
  (FastPath /\ Applying) =>
    /\ aerr = "nil"
    /\ doc.k = "arr"
    /\ pc = "done" =>
         /\ applied = 2
         /\ Len(doc.e) = Len(b.elems)
         /\ \A i \in 1..Len(doc.e) : doc.e[i] = b.elems[i].v

C25_Witness ==
  /\ pc = "done"
  /\ WindowPair
  /\ res = Ok(DscPatch)
  /\ applied = 2
  /\ doc = BufValue(b)
  /\ \E i \in 1..Len(b.elems) : b.elems[i].fmt # a.elems[1].fmt

-----------------------------------------------------------------------------
(* The order in which a run visits map keys and hash buckets *)

OpSet(r) == {r.patch[n] : n \in 1..Len(r.patch)}

(* the document the replay of all of ops on v ends with *)
ReplayAll(v, ops) == Replay(v, ops, Len(ops))

(* the outcomes r1 and r2 of two runs on the document v hold the same     *)
(* operations and replay to the same document                              *)
SameOutcome(r1, r2, v) ==
  /\ r1.err = r2.err
  /\ OpSet(r1) = OpSet(r2)
  /\ ReplayAll(v, r1.patch) = ReplayAll(v, r2.patch)

(* C26: for a fixed pair of documents the visiting order of object keys   *)
(* and hash buckets may change the order of the returned operations, but  *)
(* every visiting order returns the same set of operations, and the       *)
(* replay of the list in its returned order ends with the same document.  *)
C26_OrderIndependent ==
  (pc = "diffed" /\ ValidPair) =>
    \A o \in Orders : SameOutcome(CreatePatch(a, b, o), res, BufValue(a))

====
